---- MODULE Spec2Model ----
(***************************************************************************)
(* The rotating log writer of taichidb/logr (src/logr.go, lines 1-491):    *)
(* leveled writes through a bufio.Writer into <FileName>.log, size-based   *)
(* rotation into <FileName>_<timestamp>.log[.gz], and retention cleanup;   *)
(* then the goroutines around it: the lock, Fatal, Close, the two routines,*)
(* SetLevel and GetLevel; rotation with failing file-system calls; and, of *)
(* the second iteration in the same file (lines 493-1013), the write       *)
(* through io.MultiWriter and the cleanup that logs what it deleted.       *)
(*                                                                         *)
(* A byte of a log record is modelled by the number of the call that wrote *)
(* it (1, 2, ...); the bytes a file held before the logger was constructed *)
(* are 0.  The wall clock counts whole seconds, the resolution of the      *)
(* archive timestamp.                                                      *)
(***************************************************************************)
EXTENDS Integers, Sequences, FiniteSets, TLC

\* ---------------------------------------------------------------- bounds
MaxWrites == 3      \* leveled calls per run
MaxTime == 2        \* the clock runs over 0..MaxTime
SmallMax == 3       \* the positive MaxSize that is configured
BufSize == 2        \* capacity of the bufio.Writer (4096 in the library)
MaxDirFiles == 2    \* archives found in the directory at construction

\* ------------------------------------------------------------ LogLevel
DEBUG == 0
INFO == 1
WARN == 2
ERROR == 3
FATAL == 4

LogLevel == DEBUG..FATAL

\* ------------------------------------------------------------- inputs
Procs == {"c1"}
RecSizes == {1, SmallMax + 1}
Clock == 0..MaxTime

FileName == "app"

\* A file name <stem>[_<ts>]<ext> of the log directory.
Names == [stem : {FileName}, stamped : BOOLEAN, ts : Clock, ext : {".log", ".log.gz"}]

\* Levels that SetLevel is called with.
SetLevels == {DEBUG, WARN}

\* Configurations of the writer: size limit and compression vary, no retention.
Config ==
    [MaxSize : {0, SmallMax}, MaxAge : {0}, MaxBackups : {0},
     Level : SetLevels, Compress : BOOLEAN]

\* Configurations of retention: age and count limits vary.
RetentionConfig ==
    [MaxSize : {SmallMax}, MaxAge : {0, 1}, MaxBackups : {0, 1},
     Level : SetLevels, Compress : BOOLEAN]

\* Configurations of retention over a directory left by earlier runs.
DirConfig ==
    [MaxSize : {SmallMax}, MaxAge : {0, 1}, MaxBackups : {0, 1, 2},
     Level : {INFO}, Compress : BOOLEAN]

VARIABLES
    config,       \* Logger.config
    files,        \* the log directory: name -> [data, mtime]
    writer,       \* bytes held by Logger.writer (bufio.Writer)
    fileOpen,     \* Logger.file is an open handle on the canonical path
    currentSize,  \* Logger.currentSize
    now,          \* wall clock, seconds
    pc,           \* per caller: "idle" | "lock" (past the level check)
    req,          \* per caller: the record it is about to write
    exited,       \* os.Exit was called
    hist,         \* history: the calls decided so far, in order: [id, n, ok],
                  \* ok iff the level was >= the minimum the call read
    nrot,         \* history: calls of rotateFile so far
    deleted,      \* history: a cleanup pass has deleted a file
    lastOp,       \* history: the operation that ran last
    mu,           \* Logger.mu: "free", or the goroutine that holds it
    stopChan,     \* Logger.stopChan: "open" | "closed"
    gpc,          \* position of each goroutine other than the leveled callers
    werr,         \* the sticky error of Logger.writer (bufio.Writer.err # nil)
    exitCode,     \* -1 while the process runs, 1 after os.Exit(1), 2 after a panic
    closeRes,     \* the call of Close: its progress, its I/O results, its return value
    lastSet,      \* history: the level of the last SetLevel that returned
    got           \* the value the last GetLevel returned, -1 before the first

\* The state that the goroutines of the logger add to that of the writer.
conc == <<mu, stopChan, gpc, werr, exitCode, closeRes>>

\* What SetLevel and GetLevel leave for their callers.
levelState == <<lastSet, got>>

vars ==
    <<config, files, writer, fileOpen, currentSize, now, pc, req, exited,
      hist, nrot, deleted, lastOp, mu, stopChan, gpc, werr, exitCode, closeRes,
      lastSet, got>>

\* ----------------------------------------------------------- file names
getCurrentLogPath ==
    [stem |-> FileName, stamped |-> FALSE, ts |-> 0, ext |-> ".log"]

\* Mutant: the archive name does not follow the Compress flag.
getBackupLogPath_plain(cfg, timestamp) ==
    [stem |-> FileName, stamped |-> TRUE, ts |-> timestamp, ext |-> ".log"]

getBackupLogPath(cfg, timestamp) ==
    [stem |-> FileName, stamped |-> TRUE, ts |-> timestamp,
     ext |-> IF cfg.Compress THEN ".log.gz" ELSE ".log"]

\* ------------------------------------------------------------- gzip
\* A gzip stream: a header, the payload, a trailer that carries its length.
Gzip(s) == <<-1>> \o s \o <<-2 - Len(s)>>

IsGzip(z) == Len(z) >= 2 /\ z[1] = -1 /\ z[Len(z)] = -2 - (Len(z) - 2)

Gunzip(z) == SubSeq(z, 2, Len(z) - 1)

\* ------------------------------------------------------------ records
RECURSIVE Rep(_, _)
Rep(b, n) == IF n = 0 THEN <<>> ELSE <<b>> \o Rep(b, n - 1)

\* The bytes of the record of call id, n bytes long.
Record(id, n) == Rep(id, n)

\* ---------------------------------------------------- the open segment
\* State of the writer that rotation and writes change together.
Seg(fs, w, open, size) == [files |-> fs, writer |-> w, open |-> open, size |-> size]

Cur == Seg(files, writer, fileOpen, currentSize)

AppendTo(fs, name, bytes, t) ==
    IF bytes = <<>> THEN fs
    ELSE [fs EXCEPT ![name] = [data |-> @.data \o bytes, mtime |-> t]]

\* bufio.Writer.Flush on the active file.
Flush(s, t) ==
    [s EXCEPT !.files = AppendTo(s.files, getCurrentLogPath, s.writer, t),
              !.writer = <<>>]

\* bufio.Writer.WriteString: bytes that do not fit go to the file.
RECURSIVE WriteString(_, _, _)
WriteString(s, bytes, t) ==
    IF Len(bytes) > BufSize - Len(s.writer)
    THEN IF Len(s.writer) = 0
         THEN [s EXCEPT !.files = AppendTo(s.files, getCurrentLogPath, bytes, t)]
         ELSE LET k == BufSize - Len(s.writer)
                  full == [s EXCEPT !.writer = @ \o SubSeq(bytes, 1, k)]
              IN WriteString(Flush(full, t), SubSeq(bytes, k + 1, Len(bytes)), t)
    ELSE [s EXCEPT !.writer = @ \o bytes]

\* Mutant: the size count starts at 0 whatever the file holds.
openLogFile_zero(s, t) ==
    LET path == getCurrentLogPath
        exists == path \in DOMAIN s.files
    IN [files |-> IF exists THEN s.files
                  ELSE s.files @@ (path :> [data |-> <<>>, mtime |-> t]),
        writer |-> <<>>,
        open |-> TRUE,
        size |-> 0]

\* openLogFile: currentSize is the size os.Stat reports, 0 for a new file.
openLogFile(s, t) ==
    LET path == getCurrentLogPath
        exists == path \in DOMAIN s.files
    IN [files |-> IF exists THEN s.files
                  ELSE s.files @@ (path :> [data |-> <<>>, mtime |-> t]),
        writer |-> <<>>,
        open |-> TRUE,
        size |-> IF exists THEN Len(s.files[path].data) ELSE 0]

Remove(fs, name) == [f \in DOMAIN fs \ {name} |-> fs[f]]

compressFile(fs, srcPath, dstPath, t) ==
    [f \in DOMAIN fs \cup {dstPath} |->
        IF f = dstPath THEN [data |-> Gzip(fs[srcPath].data), mtime |-> t] ELSE fs[f]]

Rename(fs, old, new) ==
    [f \in (DOMAIN fs \ {old}) \cup {new} |-> IF f = new THEN fs[old] ELSE fs[f]]

\* Mutant: the archive is made before the buffered bytes are flushed.
rotateFile_noflush(cfg, s, t) ==
    LET closed == [s EXCEPT !.open = FALSE]
        currentPath == getCurrentLogPath
        backupPath == getBackupLogPath(cfg, t)
        archived ==
            IF cfg.Compress
            THEN Remove(compressFile(closed.files, currentPath, backupPath, t), currentPath)
            ELSE Rename(closed.files, currentPath, backupPath)
    IN openLogFile([closed EXCEPT !.files = archived], t)

rotateFile(cfg, s, t) ==
    LET flushed == Flush(s, t)
        closed == [flushed EXCEPT !.open = FALSE]
        currentPath == getCurrentLogPath
        backupPath == getBackupLogPath(cfg, t)
        archived ==
            IF cfg.Compress
            THEN Remove(compressFile(closed.files, currentPath, backupPath, t), currentPath)
            ELSE Rename(closed.files, currentPath, backupPath)
    IN openLogFile([closed EXCEPT !.files = archived], t)

\* Mutant: a record at exactly the minimum level is dropped.
belowLevel_le(cfg, level) == level <= cfg.Level

\* writeLog's level check: the call returns before it does any work.
belowLevel(cfg, level) == level < cfg.Level

\* Mutant: MaxSize is compared also when it is not positive.
shouldRotate_nolimit(cfg, size, messageSize) ==
    size + messageSize > cfg.MaxSize

\* Mutant: rotation already when the record exactly fills the segment.
shouldRotate_ge(cfg, size, messageSize) ==
    cfg.MaxSize > 0 /\ size + messageSize >= cfg.MaxSize

\* Mutant: rotation only once the segment has outgrown the limit.
shouldRotate_late(cfg, size, messageSize) ==
    cfg.MaxSize > 0 /\ size > cfg.MaxSize

shouldRotate(cfg, size, messageSize) ==
    cfg.MaxSize > 0 /\ size + messageSize > cfg.MaxSize

\* Mutant: the bytes written are not added to currentSize.
writeLocked_nosize(cfg, s, id, n, t) ==
    LET rot == shouldRotate(cfg, s.size, n)
        s1 == IF rot THEN rotateFile(cfg, s, t) ELSE s
    IN [seg |-> WriteString(s1, Record(id, n), t), rotated |-> rot]

\* Mutant: the bytes are added to currentSize before the rotation, which
\* sets it to the size of the new file.
writeLocked_early(cfg, s, id, n, t) ==
    LET rot == shouldRotate(cfg, s.size, n)
        s0 == [s EXCEPT !.size = @ + n]
        s1 == IF rot THEN rotateFile(cfg, s0, t) ELSE s0
    IN [seg |-> WriteString(s1, Record(id, n), t), rotated |-> rot]

\* The part of writeLog that runs under the lock.
writeLocked(cfg, s, id, n, t) ==
    LET rot == shouldRotate(cfg, s.size, n)
        s1 == IF rot THEN rotateFile(cfg, s, t) ELSE s
        s2 == WriteString(s1, Record(id, n), t)
    IN [seg |-> [s2 EXCEPT !.size = @ + n], rotated |-> rot]

\* ------------------------------------------------------------- cleanup
\* The kind of a directory entry: "file" (a regular file) unless the
\* entry says otherwise ("dir", or "link" for a symbolic link, a FIFO or
\* any other entry that is neither a directory nor a regular file).
Kind(fs, f) == IF "kind" \in DOMAIN fs[f] THEN fs[f].kind ELSE "file"

\* getLogFiles: the entries that are not directories (entry.IsDir()) and
\* are named <FileName>.log, <FileName>_*.log or <FileName>_*.log.gz.
getLogFiles(fs) ==
    {f \in DOMAIN fs :
        /\ Kind(fs, f) # "dir"
        /\ \/ f = getCurrentLogPath
           \/ f.stem = FileName /\ f.stamped /\ f.ext \in {".log", ".log.gz"}}

\* sort.Slice by modification time, newest first; the order of files of
\* equal modification time is not determined.
SortedNewestFirst(fs) ==
    LET S == getLogFiles(fs)
        k == Cardinality(S)
    IN {o \in [1..k -> S] :
           /\ \A i, j \in 1..k : i # j => o[i] # o[j]
           /\ \A i, j \in 1..k : i < j => ~(fs[o[j]].mtime > fs[o[i]].mtime)}

\* Mutant: the active file is not skipped.
shouldDelete_noskip(cfg, fs, o, i, t) ==
    \/ cfg.MaxAge > 0 /\ t - fs[o[i + 1]].mtime > cfg.MaxAge
    \/ cfg.MaxBackups > 0 /\ i >= cfg.MaxBackups

\* Mutant: a file is deleted only when both limits are exceeded.
shouldDelete_and(cfg, fs, o, i, t) ==
    /\ o[i + 1] # getCurrentLogPath
    /\ cfg.MaxAge > 0 /\ t - fs[o[i + 1]].mtime > cfg.MaxAge
    /\ cfg.MaxBackups > 0 /\ i >= cfg.MaxBackups

\* Mutant: the age of a file is taken the wrong way round.
shouldDelete_agerev(cfg, fs, o, i, t) ==
    /\ o[i + 1] # getCurrentLogPath
    /\ \/ cfg.MaxAge > 0 /\ fs[o[i + 1]].mtime - t > cfg.MaxAge
       \/ cfg.MaxBackups > 0 /\ i >= cfg.MaxBackups

\* The loop of cleanup over the sorted list: i is the 0-based index in it.
shouldDelete(cfg, fs, o, i, t) ==
    /\ o[i + 1] # getCurrentLogPath
    /\ \/ cfg.MaxAge > 0 /\ t - fs[o[i + 1]].mtime > cfg.MaxAge
       \/ cfg.MaxBackups > 0 /\ i >= cfg.MaxBackups

cleanup(cfg, fs, o, t) ==
    LET del == {o[i + 1] : i \in {j \in 0..(Len(o) - 1) : shouldDelete(cfg, fs, o, j, t)}}
    IN [f \in DOMAIN fs \ del |-> fs[f]]

\* ---------------------------------------------------------- goroutines
\* The goroutines beside the callers of the leveled methods: the two that
\* NewLogger starts, the caller of Close, and the one syncAndExit starts.
Routines == {"cleanupRoutine", "syncRoutine"}

Goroutines == Routines \cup {"closer", "fatalSync"}

\* Close before it is called.
NoClose == [st |-> "none", before |-> 0, first |-> "none", ret |-> "none"]

\* The state NewLogger leaves: the lock free, the channel open, the
\* routines started (syncRoutine only with SyncInterval > 0).
ConcInit(syncStates) ==
    /\ mu = "free"
    /\ stopChan = "open"
    /\ \E st \in syncStates :
          gpc = [g \in Goroutines |->
                    CASE g = "cleanupRoutine" -> "select"
                      [] g = "syncRoutine" -> st
                      [] g = "closer" -> "idle"
                      [] OTHER -> "off"]
    /\ werr = FALSE
    /\ exitCode = -1
    /\ closeRes = NoClose

\* NewLogger: the level is the configured one, GetLevel was not called.
LevelInit ==
    /\ lastSet = config.Level
    /\ got = -1

\* ------------------------------------------------------------- actions
NoReq == [id |-> 0, level |-> DEBUG, min |-> DEBUG, n |-> 0]

\* The calls made so far: those decided and those past the level check.
Issued == Len(hist) + Cardinality({p \in DOMAIN pc : pc[p] \in {"lock", "crit"}})

InitWith(cfgs, sizes) ==
    /\ config \in cfgs
    /\ \E k \in sizes :
          /\ files = (getCurrentLogPath :> [data |-> Rep(0, k), mtime |-> 0])
          /\ currentSize = k
    /\ writer = <<>>
    /\ fileOpen = TRUE
    /\ now = 0
    /\ pc = [p \in Procs |-> "idle"]
    /\ req = [p \in Procs |-> NoReq]
    /\ exited = FALSE
    /\ hist = <<>>
    /\ nrot = 0
    /\ deleted = FALSE
    /\ lastOp = "none"
    /\ ConcInit({"select"})
    /\ LevelInit

\* Debug/Info/Warn/Error/Fatal up to the level check of writeLog, which
\* reads config.Level before the lock is taken.
WriteCheck(p, level, n) ==
    /\ ~exited /\ pc[p] = "idle" /\ Issued < MaxWrites
    /\ IF belowLevel(config, level)
       THEN /\ hist' = Append(hist, [id |-> Issued + 1, n |-> n, ok |-> level >= config.Level])
            /\ lastOp' = "filtered"
            /\ UNCHANGED <<pc, req>>
       ELSE /\ pc' = [pc EXCEPT ![p] = "lock"]
            /\ req' = [req EXCEPT ![p] = [id |-> Issued + 1, level |-> level,
                                           min |-> config.Level, n |-> n]]
            /\ lastOp' = "none"
            /\ UNCHANGED hist
    /\ UNCHANGED <<config, files, writer, fileOpen, currentSize, now, exited, nrot, deleted>>
    /\ UNCHANGED conc
    /\ UNCHANGED levelState

\* writeLog from l.mu.Lock() to the deferred Unlock.
WriteLocked(p) ==
    /\ ~exited /\ pc[p] = "lock"
    /\ LET r == req[p]
           w == writeLocked(config, Cur, r.id, r.n, now)
       IN /\ files' = w.seg.files
          /\ writer' = w.seg.writer
          /\ fileOpen' = w.seg.open
          /\ currentSize' = w.seg.size
          /\ hist' = Append(hist, [id |-> r.id, n |-> r.n, ok |-> r.level >= r.min])
          /\ nrot' = IF w.rotated THEN nrot + 1 ELSE nrot
          /\ pc' = [pc EXCEPT ![p] = IF r.level = FATAL THEN "exit" ELSE "idle"]
    /\ req' = [req EXCEPT ![p] = NoReq]
    /\ lastOp' = "write"
    /\ UNCHANGED <<config, now, exited, deleted>>
    /\ UNCHANGED conc
    /\ UNCHANGED levelState

\* syncAndExit: flush and sync under the lock, or the 5 s timeout, then os.Exit(1).
FatalExit(p) ==
    /\ ~exited /\ pc[p] = "exit"
    /\ \E synced \in BOOLEAN :
          LET s == IF synced THEN Flush(Cur, now) ELSE Cur
          IN /\ files' = s.files
             /\ writer' = s.writer
    /\ exited' = TRUE
    /\ exitCode' = 1
    /\ lastOp' = "none"
    /\ UNCHANGED <<config, fileOpen, currentSize, now, pc, req, hist, nrot, deleted>>
    /\ UNCHANGED <<mu, stopChan, gpc, werr, closeRes>>
    /\ UNCHANGED levelState

Sync ==
    /\ ~exited
    /\ LET s == Flush(Cur, now)
       IN /\ files' = s.files
          /\ writer' = s.writer
    /\ lastOp' = "none"
    /\ UNCHANGED <<config, fileOpen, currentSize, now, pc, req, exited, hist, nrot, deleted>>
    /\ UNCHANGED conc
    /\ UNCHANGED levelState

Cleanup ==
    /\ ~exited
    /\ \E o \in SortedNewestFirst(files) : files' = cleanup(config, files, o, now)
    /\ deleted' = (deleted \/ DOMAIN files' # DOMAIN files)
    /\ lastOp' = "cleanup"
    /\ UNCHANGED <<config, writer, fileOpen, currentSize, now, pc, req, exited, hist, nrot>>
    /\ UNCHANGED conc
    /\ UNCHANGED levelState

SetLevel(level) ==
    /\ ~exited
    /\ config' = [config EXCEPT !.Level = level]
    /\ lastSet' = level
    /\ lastOp' = "none"
    /\ UNCHANGED <<files, writer, fileOpen, currentSize, now, pc, req, exited, hist, nrot, deleted>>
    /\ UNCHANGED <<conc, got>>

Tick ==
    /\ ~exited /\ now < MaxTime
    /\ now' = now + 1
    /\ lastOp' = "none"
    /\ UNCHANGED <<config, files, writer, fileOpen, currentSize, pc, req, exited,
                   hist, nrot, deleted>>
    /\ UNCHANGED conc
    /\ UNCHANGED levelState

Next ==
    \/ \E p \in Procs, level \in LogLevel, n \in RecSizes : WriteCheck(p, level, n)
    \/ \E p \in Procs : WriteLocked(p)
    \/ \E p \in Procs : FatalExit(p)
    \/ Sync
    \/ Cleanup
    \/ \E level \in SetLevels : SetLevel(level)
    \/ Tick

Init == InitWith(Config, {0, 1})

Spec == Init /\ [][Next]_vars

InitRetention == InitWith(RetentionConfig, {0})

\* The directories NewLogger may be constructed on: the active file and up
\* to MaxDirFiles archives of earlier runs, of any modification times.
Directories ==
    LET stamped == {f \in Names : f.stamped /\ f.ts <= 1}
        sets == {S \in SUBSET stamped : Cardinality(S) <= MaxDirFiles}
    IN UNION {
        {[f \in S \cup {getCurrentLogPath} |->
            [data |-> IF f.ext = ".log.gz" THEN Gzip(<<>>) ELSE <<>>, mtime |-> m[f]]]
         : m \in [S \cup {getCurrentLogPath} -> Clock]}
        : S \in sets}

InitDir ==
    /\ config \in DirConfig
    /\ files \in Directories
    /\ currentSize = 0
    /\ writer = <<>>
    /\ fileOpen = TRUE
    /\ now \in Clock
    /\ pc = [p \in Procs |-> "idle"]
    /\ req = [p \in Procs |-> NoReq]
    /\ exited = FALSE
    /\ hist = <<>>
    /\ nrot = 0
    /\ deleted = FALSE
    /\ lastOp = "none"
    /\ ConcInit({"select"})
    /\ LevelInit

\* Cleanup passes, scheduled or manual, as time goes by.
NextDir == Cleanup \/ Tick

SpecDir == InitDir /\ [][NextDir]_vars

SpecRetention == InitRetention /\ [][Next]_vars

\* Configurations in which limits are zero or negative.
LimitConfig ==
    [MaxSize : {-1, 0, SmallMax}, MaxAge : {-1, 0}, MaxBackups : {-1, 0},
     Level : {INFO}, Compress : {FALSE}]

\* NewLogger on a directory that holds the active file of an earlier run,
\* with or without an archive of it.
InitLimit ==
    /\ config \in LimitConfig
    /\ \E k \in {0, 1}, left \in BOOLEAN :
          LET old == [stem |-> FileName, stamped |-> TRUE, ts |-> 0, ext |-> ".log"]
              active == (getCurrentLogPath :> [data |-> Rep(0, k), mtime |-> 0])
          IN /\ files = IF left THEN active @@ (old :> [data |-> <<0>>, mtime |-> 0])
                        ELSE active
             /\ currentSize = k
    /\ writer = <<>>
    /\ fileOpen = TRUE
    /\ now = 0
    /\ pc = [p \in Procs |-> "idle"]
    /\ req = [p \in Procs |-> NoReq]
    /\ exited = FALSE
    /\ hist = <<>>
    /\ nrot = 0
    /\ deleted = FALSE
    /\ lastOp = "none"
    /\ ConcInit({"select"})
    /\ LevelInit

\* Writes, cleanup passes, the clock.
NextLimit ==
    \/ \E p \in Procs, n \in RecSizes : WriteCheck(p, INFO, n)
    \/ \E p \in Procs : WriteLocked(p)
    \/ Cleanup
    \/ Tick

SpecLimit == InitLimit /\ [][NextLimit]_vars

\* Entries that a log directory may hold beside the active file: an
\* archive, a directory and a symbolic link with names of archives, a file
\* of another application, a file with another extension.
Others ==
    LET nm(stem, ts, ext) == [stem |-> stem, stamped |-> TRUE, ts |-> ts, ext |-> ext]
        e(kind) == [data |-> <<>>, mtime |-> 0, kind |-> kind]
    IN {<<nm(FileName, 0, ".log"), e("file")>>,
        <<nm(FileName, 1, ".log"), e("dir")>>,
        <<nm(FileName, 1, ".log.gz"), e("link")>>,
        <<nm("web", 0, ".log"), e("file")>>,
        <<nm(FileName, 0, ".txt"), e("file")>>}

InitTree ==
    /\ config \in [MaxSize : {SmallMax}, MaxAge : {0, 1}, MaxBackups : {0, 1},
                    Level : {INFO}, Compress : {FALSE}]
    /\ \E S \in SUBSET Others :
          files = [f \in {getCurrentLogPath} \cup {x[1] : x \in S} |->
                      IF f = getCurrentLogPath THEN [data |-> <<>>, mtime |-> 0]
                      ELSE (CHOOSE x \in S : x[1] = f)[2]]
    /\ currentSize = 0
    /\ writer = <<>>
    /\ fileOpen = TRUE
    /\ now = 0
    /\ pc = [p \in Procs |-> "idle"]
    /\ req = [p \in Procs |-> NoReq]
    /\ exited = FALSE
    /\ hist = <<>>
    /\ nrot = 0
    /\ deleted = FALSE
    /\ lastOp = "none"
    /\ ConcInit({"select"})
    /\ LevelInit

SpecTree == InitTree /\ [][NextDir]_vars

\* ---------------------------------------------- the lock, step by step
\* Mutant: the lock is taken without waiting for it to be free.
Lock_nowait(g) == mu' = g

\* sync.Mutex.Lock by goroutine g: waits until the lock is free.
Lock(g) == mu = "free" /\ mu' = g

\* The deferred sync.Mutex.Unlock.
Unlock == mu' = "free"

\* bufio.Writer.Flush with its failures: the sticky error, a closed file,
\* a write the file system refuses (ok = FALSE); an empty buffer needs no write.
FlushIO(s, err, ok, t) ==
    IF err THEN [seg |-> s, err |-> TRUE]
    ELSE IF s.writer = <<>> THEN [seg |-> s, err |-> FALSE]
    ELSE IF ~s.open \/ ~ok THEN [seg |-> s, err |-> TRUE]
    ELSE [seg |-> Flush(s, t), err |-> FALSE]

\* writeLog under the lock when the file was closed by Close (or the writer
\* holds an error): rotateFile only warns that Flush and Close fail, archives
\* the file by its path and opens a new one with a new writer; without
\* rotation the record is buffered if it fits, and lost with an error if not.
writeClosed(cfg, s, err, id, n, t) ==
    IF shouldRotate(cfg, s.size, n)
    THEN LET s1 == rotateFile(cfg, [s EXCEPT !.writer = <<>>], t)
             s2 == WriteString(s1, Record(id, n), t)
         IN [seg |-> [s2 EXCEPT !.size = @ + n], rotated |-> TRUE, err |-> FALSE]
    ELSE IF err THEN [seg |-> s, rotated |-> FALSE, err |-> TRUE]
    ELSE IF n <= BufSize - Len(s.writer)
    THEN [seg |-> [s EXCEPT !.writer = @ \o Record(id, n), !.size = @ + n],
          rotated |-> FALSE, err |-> FALSE]
    ELSE LET k == BufSize - Len(s.writer)
         IN [seg |-> IF Len(s.writer) = 0 THEN s
                     ELSE [s EXCEPT !.writer = @ \o SubSeq(Record(id, n), 1, k)],
             rotated |-> FALSE, err |-> TRUE]

\* writeLog from after l.mu.Lock().
writeCrit(cfg, s, err, id, n, t) ==
    IF s.open /\ ~err
    THEN LET w == writeLocked(cfg, s, id, n, t)
         IN [seg |-> w.seg, rotated |-> w.rotated, err |-> FALSE]
    ELSE writeClosed(cfg, s, err, id, n, t)

\* os.Exit(1).
osExit ==
    /\ exited' = TRUE
    /\ exitCode' = 1

\* A run-time panic aborts the process (exit status 2).
panic ==
    /\ exited' = TRUE
    /\ exitCode' = 2

\* writeLog: l.mu.Lock() returns.
WriteAcquire(p) ==
    /\ ~exited /\ pc[p] = "lock"
    /\ Lock(p)
    /\ pc' = [pc EXCEPT ![p] = "crit"]
    /\ lastOp' = "none"
    /\ UNCHANGED <<config, files, writer, fileOpen, currentSize, now, req, exited,
                   hist, nrot, deleted, stopChan, gpc, werr, exitCode, closeRes>>
    /\ UNCHANGED levelState

\* writeLog from shouldRotate to the deferred Unlock; Fatal goes on to
\* syncAndExit.
WriteCrit(p) ==
    /\ ~exited /\ pc[p] = "crit"
    /\ LET r == req[p]
           w == writeCrit(config, Cur, werr, r.id, r.n, now)
       IN /\ files' = w.seg.files
          /\ writer' = w.seg.writer
          /\ fileOpen' = w.seg.open
          /\ currentSize' = w.seg.size
          /\ werr' = w.err
          /\ hist' = Append(hist, [id |-> r.id, n |-> r.n, ok |-> r.level >= r.min])
          /\ nrot' = IF w.rotated THEN nrot + 1 ELSE nrot
          /\ pc' = [pc EXCEPT ![p] = IF r.level = FATAL THEN "exit" ELSE "idle"]
    /\ Unlock
    /\ req' = [req EXCEPT ![p] = NoReq]
    /\ lastOp' = "write"
    /\ UNCHANGED <<config, now, exited, deleted, stopChan, gpc, exitCode, closeRes>>
    /\ UNCHANGED levelState

\* l.mu.Lock() returns in cleanup, Sync, Close or the goroutine of
\* syncAndExit.
Acquire(g) ==
    /\ ~exited /\ gpc[g] = "lock"
    /\ Lock(g)
    /\ gpc' = [gpc EXCEPT ![g] = "crit"]
    /\ lastOp' = "none"
    /\ UNCHANGED <<config, files, writer, fileOpen, currentSize, now, pc, req, exited,
                   hist, nrot, deleted, stopChan, werr, exitCode, closeRes>>
    /\ UNCHANGED levelState

\* syncAndExit starts its goroutine and waits in the select.
FatalSpawn(p) ==
    /\ ~exited /\ pc[p] = "exit"
    /\ pc' = [pc EXCEPT ![p] = "select"]
    /\ gpc' = [gpc EXCEPT !["fatalSync"] = "lock"]
    /\ lastOp' = "none"
    /\ UNCHANGED <<config, files, writer, fileOpen, currentSize, now, req, exited,
                   hist, nrot, deleted, mu, stopChan, werr, exitCode, closeRes>>
    /\ UNCHANGED levelState

\* The goroutine of syncAndExit under the lock: Flush and file.Sync, whose
\* errors are ignored, then close(done).
FatalSync ==
    /\ ~exited /\ gpc["fatalSync"] = "crit"
    /\ \E ok \in BOOLEAN :
          LET f == FlushIO(Cur, werr, ok, now)
          IN /\ files' = f.seg.files
             /\ writer' = f.seg.writer
             /\ werr' = f.err
    /\ Unlock
    /\ gpc' = [gpc EXCEPT !["fatalSync"] = "done"]
    /\ lastOp' = "none"
    /\ UNCHANGED <<config, fileOpen, currentSize, now, pc, req, exited,
                   hist, nrot, deleted, stopChan, exitCode, closeRes>>
    /\ UNCHANGED levelState

\* Mutant: Fatal returns to its caller once the sync is done.
FatalDone_return(p) ==
    /\ ~exited /\ pc[p] = "select" /\ gpc["fatalSync"] = "done"
    /\ pc' = [pc EXCEPT ![p] = "idle"]
    /\ gpc' = [gpc EXCEPT !["fatalSync"] = "off"]
    /\ lastOp' = "none"
    /\ UNCHANGED <<config, files, writer, fileOpen, currentSize, now, req, exited,
                   hist, nrot, deleted, mu, stopChan, werr, exitCode, closeRes>>
    /\ UNCHANGED levelState

\* syncAndExit: case <-done, then os.Exit(1).
FatalDone(p) ==
    /\ ~exited /\ pc[p] = "select" /\ gpc["fatalSync"] = "done"
    /\ osExit
    /\ lastOp' = "none"
    /\ UNCHANGED <<config, files, writer, fileOpen, currentSize, now, pc, req,
                   hist, nrot, deleted, mu, stopChan, gpc, werr, closeRes>>
    /\ UNCHANGED levelState

\* syncAndExit: case <-time.After(5 * time.Second), then os.Exit(1).
FatalTimeout(p) ==
    /\ ~exited /\ pc[p] = "select" /\ gpc["fatalSync"] # "done"
    /\ osExit
    /\ lastOp' = "none"
    /\ UNCHANGED <<config, files, writer, fileOpen, currentSize, now, pc, req,
                   hist, nrot, deleted, mu, stopChan, gpc, werr, closeRes>>
    /\ UNCHANGED levelState

\* cleanupRoutine, syncRoutine: case <-ticker.C, the pass starts and
\* waits for the lock.
RoutineTick(g) ==
    /\ ~exited /\ gpc[g] = "select"
    /\ gpc' = [gpc EXCEPT ![g] = "lock"]
    /\ lastOp' = "none"
    /\ UNCHANGED <<config, files, writer, fileOpen, currentSize, now, pc, req, exited,
                   hist, nrot, deleted, mu, stopChan, werr, exitCode, closeRes>>
    /\ UNCHANGED levelState

\* Mutant: the routine goes round its loop when the channel is closed.
RoutineStop_continue(g) ==
    /\ ~exited /\ gpc[g] = "select" /\ stopChan = "closed"
    /\ lastOp' = "none"
    /\ UNCHANGED <<config, files, writer, fileOpen, currentSize, now, pc, req, exited,
                   hist, nrot, deleted, mu, stopChan, gpc, werr, exitCode, closeRes>>
    /\ UNCHANGED levelState

\* cleanupRoutine, syncRoutine: case <-l.stopChan, return.
RoutineStop(g) ==
    /\ ~exited /\ gpc[g] = "select" /\ stopChan = "closed"
    /\ gpc' = [gpc EXCEPT ![g] = "done"]
    /\ lastOp' = "none"
    /\ UNCHANGED <<config, files, writer, fileOpen, currentSize, now, pc, req, exited,
                   hist, nrot, deleted, mu, stopChan, werr, exitCode, closeRes>>
    /\ UNCHANGED levelState

\* cleanup under the lock, called by cleanupRoutine.
CleanupCrit ==
    /\ ~exited /\ gpc["cleanupRoutine"] = "crit"
    /\ \E o \in SortedNewestFirst(files) : files' = cleanup(config, files, o, now)
    /\ deleted' = (deleted \/ DOMAIN files' # DOMAIN files)
    /\ Unlock
    /\ gpc' = [gpc EXCEPT !["cleanupRoutine"] = "select"]
    /\ lastOp' = "cleanup"
    /\ UNCHANGED <<config, writer, fileOpen, currentSize, now, pc, req, exited,
                   hist, nrot, stopChan, werr, exitCode, closeRes>>
    /\ UNCHANGED levelState

\* Mutant: Sync syncs the file and leaves the buffered bytes where they are.
SyncCrit_noflush ==
    /\ ~exited /\ gpc["syncRoutine"] = "crit"
    /\ Unlock
    /\ gpc' = [gpc EXCEPT !["syncRoutine"] = "select"]
    /\ lastOp' = "none"
    /\ UNCHANGED <<config, files, writer, werr, fileOpen, currentSize, now, pc, req,
                   exited, hist, nrot, deleted, stopChan, exitCode, closeRes>>
    /\ UNCHANGED levelState

\* Sync under the lock, called by syncRoutine, which ignores its result.
SyncCrit ==
    /\ ~exited /\ gpc["syncRoutine"] = "crit"
    /\ LET f == FlushIO(Cur, werr, TRUE, now)
       IN /\ files' = f.seg.files
          /\ writer' = f.seg.writer
          /\ werr' = f.err
    /\ Unlock
    /\ gpc' = [gpc EXCEPT !["syncRoutine"] = "select"]
    /\ lastOp' = "none"
    /\ UNCHANGED <<config, fileOpen, currentSize, now, pc, req, exited,
                   hist, nrot, deleted, stopChan, exitCode, closeRes>>
    /\ UNCHANGED levelState

\* Sync under the lock, its file.Sync() never returning (a stuck file
\* system): the lock stays held.
SyncHang ==
    /\ ~exited /\ gpc["syncRoutine"] = "crit"
    /\ LET f == FlushIO(Cur, werr, TRUE, now)
       IN /\ files' = f.seg.files
          /\ writer' = f.seg.writer
          /\ werr' = f.err
    /\ gpc' = [gpc EXCEPT !["syncRoutine"] = "hung"]
    /\ lastOp' = "none"
    /\ UNCHANGED <<config, fileOpen, currentSize, now, pc, req, exited,
                   hist, nrot, deleted, mu, stopChan, exitCode, closeRes>>
    /\ UNCHANGED levelState

\* Close up to l.mu.Lock(): close(l.stopChan), which panics when the channel
\* is closed already.
CloseCall ==
    /\ ~exited /\ gpc["closer"] = "idle"
    /\ IF stopChan = "closed"
       THEN /\ panic
            /\ UNCHANGED <<stopChan, gpc, closeRes>>
       ELSE /\ stopChan' = "closed"
            /\ gpc' = [gpc EXCEPT !["closer"] = "lock"]
            /\ closeRes' = [st |-> "called", before |-> Len(hist),
                            first |-> "none", ret |-> "none"]
            /\ UNCHANGED <<exited, exitCode>>
    /\ lastOp' = "none"
    /\ UNCHANGED <<config, files, writer, fileOpen, currentSize, now, pc, req,
                   hist, nrot, deleted, mu, werr>>
    /\ UNCHANGED levelState

\* Close under the lock: Flush and file.Sync, whose results are dropped,
\* then return l.file.Close().  Each of the three may fail.
CloseCrit(flushOk, syncOk, closeOk) ==
    /\ ~exited /\ gpc["closer"] = "crit"
    /\ LET f == FlushIO(Cur, werr, flushOk, now)
           syncErr == ~syncOk \/ ~fileOpen
           closeErr == ~closeOk \/ ~fileOpen
       IN /\ files' = f.seg.files
          /\ writer' = f.seg.writer
          /\ werr' = f.err
          /\ closeRes' = [closeRes EXCEPT
                !.st = "returned",
                !.first = IF f.err THEN "flush"
                          ELSE IF syncErr THEN "sync"
                          ELSE IF closeErr THEN "close" ELSE "nil",
                !.ret = IF closeErr THEN "close" ELSE "nil"]
    /\ fileOpen' = FALSE
    /\ Unlock
    /\ gpc' = [gpc EXCEPT !["closer"] = "idle"]
    /\ lastOp' = "close"
    /\ UNCHANGED <<config, currentSize, now, pc, req, exited,
                   hist, nrot, deleted, stopChan, exitCode>>
    /\ UNCHANGED levelState

\* Configurations of the logger with its goroutines.
ConcConfig ==
    [MaxSize : {SmallMax}, MaxAge : {0}, MaxBackups : {0, 1},
     Level : {INFO}, Compress : {FALSE}]

\* The levels of the calls made beside the goroutines: none is filtered.
ConcLevels == {INFO, FATAL}

InitConcWith(cfgs, syncStates) ==
    /\ config \in cfgs
    /\ files = (getCurrentLogPath :> [data |-> <<>>, mtime |-> 0])
    /\ currentSize = 0
    /\ writer = <<>>
    /\ fileOpen = TRUE
    /\ now = 0
    /\ pc = [p \in Procs |-> "idle"]
    /\ req = [p \in Procs |-> NoReq]
    /\ exited = FALSE
    /\ hist = <<>>
    /\ nrot = 0
    /\ deleted = FALSE
    /\ lastOp = "none"
    /\ ConcInit(syncStates)
    /\ LevelInit

InitConc == InitConcWith(ConcConfig, {"select", "off"})

\* Both routines running, a count limit for cleanup.
InitLive == InitConcWith({c \in ConcConfig : c.MaxBackups = 1}, {"select"})

\* The steps of the callers procs and of the goroutines, every file-system
\* call returning: leveled calls of the given levels and sizes, and a Close
\* whose I/O calls succeed or not as oks allows.
Steps(procs, levels, sizes, oks) ==
    \/ \E p \in procs, level \in levels, n \in sizes : WriteCheck(p, level, n)
    \/ \E p \in procs : WriteAcquire(p)
    \/ \E p \in procs : WriteCrit(p)
    \/ \E p \in procs : FatalSpawn(p)
    \/ \E p \in procs : FatalDone(p)
    \/ \E p \in procs : FatalTimeout(p)
    \/ \E g \in Goroutines : Acquire(g)
    \/ FatalSync
    \/ \E g \in Routines : RoutineTick(g)
    \/ \E g \in Routines : RoutineStop(g)
    \/ CleanupCrit
    \/ SyncCrit
    \/ CloseCall
    \/ \E flushOk, syncOk, closeOk \in oks : CloseCrit(flushOk, syncOk, closeOk)

NextConc == Steps(Procs, ConcLevels, RecSizes, BOOLEAN)

SpecConc == InitConc /\ [][NextConc]_vars

\* Short records and no I/O error: the scheduling of the goroutines alone.
NextLive == Steps(Procs, ConcLevels, {1}, {TRUE})

\* The same with a file system whose Sync may never return.
NextHang == NextLive \/ SyncHang

SpecHang == InitLive /\ [][NextHang]_vars

\* Scheduling: a goroutine that can take a step takes it; sync.Mutex hands
\* the lock to a goroutine that keeps waiting for it (starvation mode); a
\* select whose stop channel is closed takes that case sooner or later; the
\* timer of syncAndExit fires.  Calls made by the application and ticks of
\* the tickers need not happen.
Fairness ==
    /\ \A p \in Procs :
          /\ SF_vars(WriteAcquire(p))
          /\ WF_vars(WriteCrit(p))
          /\ WF_vars(FatalSpawn(p))
          /\ WF_vars(FatalDone(p))
          /\ WF_vars(FatalTimeout(p))
    /\ \A g \in Goroutines : SF_vars(Acquire(g))
    /\ WF_vars(FatalSync)
    /\ WF_vars(CleanupCrit)
    /\ WF_vars(SyncCrit)
    /\ WF_vars(CloseCrit(TRUE, TRUE, TRUE))
    /\ \A g \in Routines : SF_vars(RoutineStop(g))

SpecLive == InitLive /\ [][NextLive]_vars /\ Fairness

\* The ticker of syncRoutine fires every SyncInterval for as long as the
\* routine waits in its select.
TickerFairness == WF_vars(RoutineTick("syncRoutine"))

SpecSync == InitLive /\ [][NextLive]_vars /\ Fairness /\ TickerFairness

\* ------------------------------------------------- concurrent writers
\* Two goroutines of the application that call the leveled methods.
Writers == {"c1", "c2"}

InitWriters ==
    /\ config \in {c \in ConcConfig : c.MaxBackups = 0}
    /\ files = (getCurrentLogPath :> [data |-> <<>>, mtime |-> 0])
    /\ currentSize = 0
    /\ writer = <<>>
    /\ fileOpen = TRUE
    /\ now = 0
    /\ pc = [p \in Writers |-> "idle"]
    /\ req = [p \in Writers |-> NoReq]
    /\ exited = FALSE
    /\ hist = <<>>
    /\ nrot = 0
    /\ deleted = FALSE
    /\ lastOp = "none"
    /\ ConcInit({"select"})
    /\ LevelInit

\* The writers, the periodic Sync between their writes, the clock.
NextWriters ==
    \/ \E p \in Writers, n \in RecSizes : WriteCheck(p, INFO, n)
    \/ \E p \in Writers : WriteAcquire(p)
    \/ \E p \in Writers : WriteCrit(p)
    \/ RoutineTick("syncRoutine")
    \/ Acquire("syncRoutine")
    \/ SyncCrit
    \/ Tick

SpecWriters == InitWriters /\ [][NextWriters]_vars

\* ------------------------------------------- rotation with I/O errors
\* What goes wrong in one call of rotateFile: nothing; the archival step
\* (os.Rename, or compressFile before it has created the archive); io.Copy
\* inside compressFile, after os.Create; the os.OpenFile of openLogFile; the
\* archival step and then the os.OpenFile of the recovery.
Faults == {"none", "archive", "copy", "open", "archive+open"}

\* openLogFile whose os.OpenFile fails (ok = FALSE): os.Stat has set
\* currentSize already, l.file and l.writer stay what they were.
openLogFileIO(s, t, ok) ==
    LET path == getCurrentLogPath
    IN IF ok THEN openLogFile(s, t)
       ELSE [s EXCEPT !.size = IF path \in DOMAIN s.files
                                THEN Len(s.files[path].data) ELSE 0]

\* rotateFile with the failures of its calls.  A failed Flush or Close is
\* only warned about.  When the archival step fails, openLogFile is called
\* and the error returned; a file that is not at the canonical path cannot
\* be archived; io.Copy failing leaves what os.Create made at the archive
\* path.  l.file is assigned by a successful openLogFile only.
rotateFileIO(cfg, s, err, t, fault) ==
    LET f == FlushIO(s, err, TRUE, t)
        closed == [f.seg EXCEPT !.open = FALSE]
        currentPath == getCurrentLogPath
        backupPath == getBackupLogPath(cfg, t)
        missing == currentPath \notin DOMAIN closed.files
        archFails == fault \in {"archive", "copy", "archive+open"} \/ missing
        openOk == fault \notin {"open", "archive+open"}
        left ==
            IF fault = "copy" /\ ~missing
            THEN [g \in DOMAIN closed.files \cup {backupPath} |->
                     IF g = backupPath THEN [data |-> <<-1>>, mtime |-> t]
                     ELSE closed.files[g]]
            ELSE closed.files
        archived ==
            IF cfg.Compress
            THEN Remove(compressFile(closed.files, currentPath, backupPath, t), currentPath)
            ELSE Rename(closed.files, currentPath, backupPath)
        re == openLogFileIO([closed EXCEPT !.files = IF archFails THEN left ELSE archived],
                            t, openOk)
    IN [seg |-> re,
        err |-> IF openOk THEN FALSE ELSE f.err,
        failed |-> archFails \/ ~openOk]

\* bufio.Writer.WriteString and the update of currentSize, also on a writer
\* whose file is closed or that holds an error: the record is buffered if it
\* fits; if not, the write to the file fails and currentSize stays.
writeStringIO(s, err, id, n, t) ==
    IF s.open /\ ~err
    THEN [seg |-> [WriteString(s, Record(id, n), t) EXCEPT !.size = @ + n],
          err |-> FALSE, written |-> TRUE]
    ELSE IF err THEN [seg |-> s, err |-> TRUE, written |-> FALSE]
    ELSE IF n <= BufSize - Len(s.writer)
    THEN [seg |-> [s EXCEPT !.writer = @ \o Record(id, n), !.size = @ + n],
          err |-> FALSE, written |-> TRUE]
    ELSE LET k == BufSize - Len(s.writer)
         IN [seg |-> IF Len(s.writer) = 0 THEN s
                     ELSE [s EXCEPT !.writer = @ \o SubSeq(Record(id, n), 1, k)],
             err |-> TRUE, written |-> FALSE]

\* writeLog from after l.mu.Lock(), rotateFile failing as fault says: when
\* rotateFile returns an error, writeLog reports it and returns.
writeLogIO(cfg, s, err, id, n, t, fault) ==
    LET rot == shouldRotate(cfg, s.size, n)
        r == rotateFileIO(cfg, s, err, t, fault)
    IN IF rot /\ r.failed
       THEN [seg |-> r.seg, err |-> r.err, rotated |-> TRUE, report |-> "rotfail"]
       ELSE LET w == IF rot THEN writeStringIO(r.seg, r.err, id, n, t)
                     ELSE writeStringIO(s, err, id, n, t)
            IN [seg |-> w.seg, err |-> w.err, rotated |-> rot,
                report |-> IF w.written THEN "write" ELSE "writefail"]

\* writeLog from shouldRotate to the deferred Unlock, with a fault in the
\* rotation that it makes (a write that does not rotate has fault "none").
WriteFault(p, fault) ==
    /\ ~exited /\ pc[p] = "crit"
    /\ fault = "copy" => config.Compress
    /\ LET r == req[p]
           w == writeLogIO(config, Cur, werr, r.id, r.n, now, fault)
       IN /\ fault # "none" => w.rotated
          /\ files' = w.seg.files
          /\ writer' = w.seg.writer
          /\ fileOpen' = w.seg.open
          /\ currentSize' = w.seg.size
          /\ werr' = w.err
          /\ hist' = Append(hist, [id |-> r.id, n |-> r.n, ok |-> r.level >= r.min])
          /\ nrot' = IF w.rotated THEN nrot + 1 ELSE nrot
          /\ lastOp' = w.report
    /\ Unlock
    /\ pc' = [pc EXCEPT ![p] = "idle"]
    /\ req' = [req EXCEPT ![p] = NoReq]
    /\ UNCHANGED <<config, now, exited, deleted, stopChan, gpc, exitCode, closeRes>>
    /\ UNCHANGED levelState

\* NewLogger on a log directory that is empty or holds the active file of
\* an earlier run: openLogFile makes the first segment.
InitFault ==
    /\ config \in [MaxSize : {SmallMax}, MaxAge : {0}, MaxBackups : {0},
                    Level : {INFO}, Compress : BOOLEAN]
    /\ \E fs \in {[f \in {} |-> 0]} \cup
                  {(getCurrentLogPath :> [data |-> Rep(0, k), mtime |-> 0]) : k \in 0..2} :
          LET s == openLogFile(Seg(fs, <<>>, FALSE, 0), 0)
          IN /\ files = s.files
             /\ writer = s.writer
             /\ fileOpen = s.open
             /\ currentSize = s.size
    /\ now = 0
    /\ pc = [p \in Procs |-> "idle"]
    /\ req = [p \in Procs |-> NoReq]
    /\ exited = FALSE
    /\ hist = <<>>
    /\ nrot = 0
    /\ deleted = FALSE
    /\ lastOp = "none"
    /\ ConcInit({"off"})
    /\ LevelInit

NextFault ==
    \/ \E p \in Procs, n \in RecSizes : WriteCheck(p, INFO, n)
    \/ \E p \in Procs : WriteAcquire(p)
    \/ \E p \in Procs, fault \in Faults : WriteFault(p, fault)
    \/ Tick

SpecFault == InitFault /\ [][NextFault]_vars

\* --------------------------------------------- cleanup with I/O errors
\* os.Remove fails on an entry that the file system protects (an immutable
\* file, a directory without write permission).
Protected(fs, f) == "protected" \in DOMAIN fs[f]

\* The files that a pass over the sorted list o marks for deletion.
Marked(cfg, fs, o, t) ==
    {o[i + 1] : i \in {j \in 0..(Len(o) - 1) : shouldDelete(cfg, fs, o, j, t)}}

\* Mutant: the pass ends at the first deletion that fails.
cleanupIO_abort(cfg, fs, o, t) ==
    LET marked == Marked(cfg, fs, o, t)
        bad == {i \in 1..Len(o) : o[i] \in marked /\ Protected(fs, o[i])}
        stop == IF bad = {} THEN Len(o) + 1
                ELSE CHOOSE i \in bad : \A j \in bad : i <= j
        del == {o[i] : i \in {j \in 1..Len(o) : j < stop /\ o[j] \in marked}}
    IN [files |-> [f \in DOMAIN fs \ del |-> fs[f]],
        failed |-> {f \in marked : Protected(fs, f)}]

\* The loop of cleanup with os.Remove failing on the protected entries: the
\* failure is printed and the loop goes on.
cleanupIO(cfg, fs, o, t) ==
    LET marked == Marked(cfg, fs, o, t)
        del == {f \in marked : ~Protected(fs, f)}
    IN [files |-> [f \in DOMAIN fs \ del |-> fs[f]],
        failed |-> marked \ del]

\* cleanup under the lock, deletions failing, to the deferred Unlock.
CleanupCritIO ==
    /\ ~exited /\ gpc["cleanupRoutine"] = "crit"
    /\ \E o \in SortedNewestFirst(files) :
          LET c == cleanupIO(config, files, o, now)
          IN /\ files' = c.files
             /\ lastOp' = IF c.failed = {} THEN "cleanup" ELSE "cleanuperr"
    /\ deleted' = (deleted \/ DOMAIN files' # DOMAIN files)
    /\ Unlock
    /\ gpc' = [gpc EXCEPT !["cleanupRoutine"] = "select"]
    /\ UNCHANGED <<config, writer, fileOpen, currentSize, now, pc, req, exited,
                   hist, nrot, stopChan, werr, exitCode, closeRes>>
    /\ UNCHANGED levelState

\* A directory left by earlier runs in which some archives are protected.
InitRemove ==
    /\ config \in [MaxSize : {SmallMax}, MaxAge : {0, 1}, MaxBackups : {0, 1},
                    Level : {INFO}, Compress : {FALSE}]
    /\ \E d \in Directories, P \in SUBSET {f \in Names : f.stamped} :
          /\ P \subseteq DOMAIN d
          /\ files = [f \in DOMAIN d |->
                         IF f \in P
                         THEN [data |-> d[f].data, mtime |-> d[f].mtime, protected |-> TRUE]
                         ELSE d[f]]
    /\ currentSize = 0
    /\ writer = <<>>
    /\ fileOpen = TRUE
    /\ now = 0
    /\ pc = [p \in Procs |-> "idle"]
    /\ req = [p \in Procs |-> NoReq]
    /\ exited = FALSE
    /\ hist = <<>>
    /\ nrot = 0
    /\ deleted = FALSE
    /\ lastOp = "none"
    /\ ConcInit({"off"})
    /\ LevelInit

NextRemove ==
    \/ RoutineTick("cleanupRoutine")
    \/ Acquire("cleanupRoutine")
    \/ CleanupCritIO
    \/ Tick

SpecRemove == InitRemove /\ [][NextRemove]_vars

\* -------------------------------------------------------- construction
\* What goes wrong in one call of NewLogger: nothing; os.MkdirAll; the
\* os.Stat of openLogFile (an error other than "not exist"); its os.OpenFile.
NewFaults == {"none", "mkdir", "stat", "open"}

\* NewLogger has returned a logger.
Constructed == gpc["closer"] # "off"

\* The goroutines after a successful NewLogger: cleanupRoutine started,
\* syncRoutine started or not (SyncInterval > 0 or not).
Started(st) ==
    [g \in Goroutines |->
        CASE g = "cleanupRoutine" -> "select"
          [] g = "syncRoutine" -> st
          [] g = "closer" -> "idle"
          [] OTHER -> "off"]

\* Mutant: the cleanup goroutine is started before the file is opened.
NewLogger_early(fault) ==
    /\ ~exited /\ ~Constructed
    /\ IF fault = "none"
       THEN LET s == openLogFile(Cur, now)
            IN /\ files' = s.files
               /\ writer' = s.writer
               /\ fileOpen' = s.open
               /\ currentSize' = s.size
               /\ \E st \in {"select", "off"} : gpc' = Started(st)
               /\ lastOp' = "new"
       ELSE /\ gpc' = [gpc EXCEPT !["cleanupRoutine"] = "select"]
            /\ lastOp' = "newerr"
            /\ UNCHANGED <<files, writer, fileOpen, currentSize>>
    /\ UNCHANGED <<config, now, pc, req, exited, hist, nrot, deleted,
                   mu, stopChan, werr, exitCode, closeRes>>
    /\ UNCHANGED levelState

\* NewLogger: os.MkdirAll, openLogFile, then the goroutines; an error of
\* the first two is returned with a nil logger.  The currentSize that
\* openLogFile has set before its os.OpenFile fails is that of the logger
\* that is dropped.
NewLogger(fault) ==
    /\ ~exited /\ ~Constructed
    /\ IF fault = "none"
       THEN LET s == openLogFile(Cur, now)
            IN /\ files' = s.files
               /\ writer' = s.writer
               /\ fileOpen' = s.open
               /\ currentSize' = s.size
               /\ \E st \in {"select", "off"} : gpc' = Started(st)
               /\ lastOp' = "new"
       ELSE LET s == IF fault = "open" THEN openLogFileIO(Cur, now, FALSE) ELSE Cur
            IN /\ files' = s.files
               /\ writer' = s.writer
               /\ fileOpen' = s.open
               /\ currentSize' = s.size
               /\ lastOp' = "newerr"
               /\ UNCHANGED gpc
    /\ UNCHANGED <<config, now, pc, req, exited, hist, nrot, deleted,
                   mu, stopChan, werr, exitCode, closeRes>>
    /\ UNCHANGED levelState

\* Before NewLogger: a log directory that is empty or holds the active file
\* of an earlier run; no logger, no goroutine, no handle.
InitNew ==
    /\ config \in {c \in ConcConfig : c.MaxBackups = 1}
    /\ files \in {[f \in {} |-> 0]} \cup
                  {(getCurrentLogPath :> [data |-> Rep(0, k), mtime |-> 0]) : k \in 0..2}
    /\ writer = <<>>
    /\ fileOpen = FALSE
    /\ currentSize = 0
    /\ now \in Clock
    /\ pc = [p \in Procs |-> "idle"]
    /\ req = [p \in Procs |-> NoReq]
    /\ exited = FALSE
    /\ hist = <<>>
    /\ nrot = 0
    /\ deleted = FALSE
    /\ lastOp = "none"
    /\ mu = "free"
    /\ stopChan = "open"
    /\ gpc = [g \in Goroutines |-> "off"]
    /\ werr = FALSE
    /\ exitCode = -1
    /\ closeRes = NoClose
    /\ LevelInit

\* Calls of NewLogger until one succeeds; then the logger is used.
NextNew ==
    \/ \E fault \in NewFaults : NewLogger(fault)
    \/ \E p \in Procs, n \in RecSizes : Constructed /\ WriteCheck(p, INFO, n)
    \/ \E p \in Procs : WriteAcquire(p)
    \/ \E p \in Procs : WriteCrit(p)
    \/ \E g \in Routines : RoutineTick(g)
    \/ \E g \in Routines : Acquire(g)
    \/ CleanupCrit
    \/ SyncCrit

SpecNew == InitNew /\ [][NextNew]_vars

\* ------------------------------------------------- SetLevel, GetLevel
\* The goroutines of the application that call SetLevel and GetLevel.
LevelCallers == {"setter", "getter"}

\* SetLevel, GetLevel up to l.mu.Lock().
LevelCall(g) ==
    /\ ~exited /\ gpc[g] = "idle"
    /\ gpc' = [gpc EXCEPT ![g] = "lock"]
    /\ lastOp' = "none"
    /\ UNCHANGED <<config, files, writer, fileOpen, currentSize, now, pc, req, exited,
                   hist, nrot, deleted, mu, stopChan, werr, exitCode, closeRes>>
    /\ UNCHANGED levelState

\* Mutant: SetLevel returns without having stored the level.
SetLevelCrit_unset(level) ==
    /\ ~exited /\ gpc["setter"] = "crit"
    /\ lastSet' = level
    /\ Unlock
    /\ gpc' = [gpc EXCEPT !["setter"] = "idle"]
    /\ lastOp' = "none"
    /\ UNCHANGED <<config, files, writer, fileOpen, currentSize, now, pc, req, exited,
                   hist, nrot, deleted, stopChan, werr, exitCode, closeRes, got>>

\* SetLevel(level) under the lock, to its return.
SetLevelCrit(level) ==
    /\ ~exited /\ gpc["setter"] = "crit"
    /\ config' = [config EXCEPT !.Level = level]
    /\ lastSet' = level
    /\ Unlock
    /\ gpc' = [gpc EXCEPT !["setter"] = "idle"]
    /\ lastOp' = "none"
    /\ UNCHANGED <<files, writer, fileOpen, currentSize, now, pc, req, exited,
                   hist, nrot, deleted, stopChan, werr, exitCode, closeRes, got>>

\* GetLevel under the lock, to its return.
GetLevelCrit ==
    /\ ~exited /\ gpc["getter"] = "crit"
    /\ got' = config.Level
    /\ Unlock
    /\ gpc' = [gpc EXCEPT !["getter"] = "idle"]
    /\ lastOp' = "getlevel"
    /\ UNCHANGED <<config, files, writer, fileOpen, currentSize, now, pc, req, exited,
                   hist, nrot, deleted, stopChan, werr, exitCode, closeRes, lastSet>>

\* The levels of the calls made while the minimum level changes.
CallLevels == {DEBUG, INFO, WARN, ERROR}

\* A logger configured with level INFO and no size limit; no routine is
\* modelled, a setter and a getter are.
InitLevel ==
    /\ config = [MaxSize |-> 0, MaxAge |-> 0, MaxBackups |-> 0,
                 Level |-> INFO, Compress |-> FALSE]
    /\ files = (getCurrentLogPath :> [data |-> <<>>, mtime |-> 0])
    /\ currentSize = 0
    /\ writer = <<>>
    /\ fileOpen = TRUE
    /\ now = 0
    /\ pc = [p \in Procs |-> "idle"]
    /\ req = [p \in Procs |-> NoReq]
    /\ exited = FALSE
    /\ hist = <<>>
    /\ nrot = 0
    /\ deleted = FALSE
    /\ lastOp = "none"
    /\ mu = "free"
    /\ stopChan = "open"
    /\ gpc = [g \in Goroutines \cup LevelCallers |->
                 IF g \in LevelCallers THEN "idle" ELSE "off"]
    /\ werr = FALSE
    /\ exitCode = -1
    /\ closeRes = NoClose
    /\ LevelInit

NextLevel ==
    \/ \E p \in Procs, level \in CallLevels : WriteCheck(p, level, 1)
    \/ \E p \in Procs : WriteAcquire(p)
    \/ \E p \in Procs : WriteCrit(p)
    \/ \E g \in LevelCallers : LevelCall(g)
    \/ \E g \in LevelCallers : Acquire(g)
    \/ \E level \in SetLevels : SetLevelCrit(level)
    \/ GetLevelCrit

SpecLevel == InitLevel /\ [][NextLevel]_vars

\* ------------------------------ the second iteration (lines 493-1013)
\* writeLog of the second iteration under the lock: l.out is an
\* io.MultiWriter over the bufio.Writer of the file and, when one is
\* configured, config.Output or os.Stdout.  Its Write writes to the file
\* writer first and returns the error of the other sink (sinkOk = FALSE);
\* writeLog then reports the error and returns before it adds to currentSize.
writeLocked2(cfg, s, id, n, t, sinkOk) ==
    LET rot == shouldRotate(cfg, s.size, n)
        s1 == IF rot THEN rotateFile(cfg, s, t) ELSE s
        s2 == WriteString(s1, Record(id, n), t)
    IN [seg |-> IF sinkOk THEN [s2 EXCEPT !.size = @ + n] ELSE s2, rotated |-> rot]

WriteCrit2(p, sinkOk) ==
    /\ ~exited /\ pc[p] = "crit"
    /\ LET r == req[p]
           w == writeLocked2(config, Cur, r.id, r.n, now, sinkOk)
       IN /\ files' = w.seg.files
          /\ writer' = w.seg.writer
          /\ fileOpen' = w.seg.open
          /\ currentSize' = w.seg.size
          /\ hist' = Append(hist, [id |-> r.id, n |-> r.n, ok |-> r.level >= r.min])
          /\ nrot' = IF w.rotated THEN nrot + 1 ELSE nrot
    /\ Unlock
    /\ pc' = [pc EXCEPT ![p] = "idle"]
    /\ req' = [req EXCEPT ![p] = NoReq]
    /\ lastOp' = IF sinkOk THEN "write" ELSE "sinkfail"
    /\ UNCHANGED <<config, now, exited, deleted, stopChan, gpc, werr, exitCode, closeRes>>
    /\ UNCHANGED levelState

\* cleanup of the second iteration under the lock: the same pass, and when
\* it has deleted a file, l.Debug(...) before the deferred Unlock.  The
\* writeLog of that call returns at its level check if DEBUG is below the
\* minimum; otherwise it calls l.mu.Lock(), which on a sync.Mutex that the
\* goroutine holds itself never returns ("relock").
CleanupCrit2 ==
    /\ ~exited /\ gpc["cleanupRoutine"] = "crit"
    /\ \E o \in SortedNewestFirst(files) : files' = cleanup(config, files, o, now)
    /\ deleted' = (deleted \/ DOMAIN files' # DOMAIN files)
    /\ IF DOMAIN files' # DOMAIN files /\ ~belowLevel(config, DEBUG)
       THEN /\ gpc' = [gpc EXCEPT !["cleanupRoutine"] = "relock"]
            /\ UNCHANGED mu
       ELSE /\ gpc' = [gpc EXCEPT !["cleanupRoutine"] = "select"]
            /\ Unlock
    /\ lastOp' = "cleanup"
    /\ UNCHANGED <<config, writer, fileOpen, currentSize, now, pc, req, exited,
                   hist, nrot, stopChan, werr, exitCode, closeRes>>
    /\ UNCHANGED levelState

\* A count limit for cleanup, the minimum level DEBUG or above it.
Init2 ==
    InitConcWith([MaxSize : {SmallMax}, MaxAge : {0}, MaxBackups : {1},
                  Level : {DEBUG, INFO}, Compress : {FALSE}], {"off"})

\* Writes with and without a failing second sink, cleanup passes, the clock.
Next2 ==
    \/ \E p \in Procs, n \in RecSizes : WriteCheck(p, INFO, n)
    \/ \E p \in Procs : WriteAcquire(p)
    \/ \E p \in Procs, sinkOk \in BOOLEAN : WriteCrit2(p, sinkOk)
    \/ RoutineTick("cleanupRoutine")
    \/ Acquire("cleanupRoutine")
    \/ CleanupCrit2
    \/ Tick

Spec2 == Init2 /\ [][Next2]_vars

\* ------------------------------------------------------------ segments
ActivePath == getCurrentLogPath

Archives(fs) == DOMAIN fs \ {ActivePath}

\* The bytes of a segment as a reader of the log sees them.
Content(fs, f) == IF f.ext = ".log.gz" THEN Gunzip(fs[f].data) ELSE fs[f].data

\* The active segment: what the file holds plus what the writer buffers.
ActiveSeg(fs, w) == fs[ActivePath].data \o w

SegBytes(fs, w, f) == IF f = ActivePath THEN ActiveSeg(fs, w) ELSE Content(fs, f)

EndsWith(seq, rec) ==
    Len(seq) >= Len(rec) /\ SubSeq(seq, Len(seq) - Len(rec) + 1, Len(seq)) = rec

Contains(seq, rec) ==
    \E i \in 0..(Len(seq) - Len(rec)) : SubSeq(seq, i + 1, i + Len(rec)) = rec

\* The record of a call is stored whole in some segment.
Present(fs, w, r) == \E f \in DOMAIN fs : Contains(SegBytes(fs, w, f), Record(r.id, r.n))

LastCall == hist[Len(hist)]

TypeOK ==
    /\ config.Level \in LogLevel
    /\ DOMAIN files \subseteq Names
    /\ currentSize \in Nat
    /\ now \in Clock

\* -------------------------------------------------------------- claims
\* A step in which a leveled call is decided: filtered, or written.
Decided == Len(hist') > Len(hist)

\* The log in rotation order: the archives by timestamp, then the active
\* segment.
RECURSIVE ArchiveLog(_, _, _)
ArchiveLog(fs, cfg, t) ==
    IF t > MaxTime THEN <<>>
    ELSE (IF getBackupLogPath(cfg, t) \in DOMAIN fs
          THEN Content(fs, getBackupLogPath(cfg, t)) ELSE <<>>)
         \o ArchiveLog(fs, cfg, t + 1)

WholeLog == ArchiveLog(files, config, 0) \o ActiveSeg(files, writer)

\* The accepted records of the history, in write order.
RECURSIVE Accepted(_)
Accepted(h) ==
    IF h = <<>> THEN <<>>
    ELSE (IF Head(h).ok THEN Record(Head(h).id, Head(h).n) ELSE <<>>) \o Accepted(Tail(h))

C2_AllRecordsInOrder ==
    ~deleted => SelectSeq(WholeLog, LAMBDA b : b # 0) = Accepted(hist)

\* C3 (as claimed): a rotation loses no record: every record stored in some
\* segment before the rotation is stored in some segment after it.
C3_RotationKeepsRecords ==
    [][nrot' > nrot =>
        \A i \in DOMAIN hist :
            Present(files, writer, hist[i]) => Present(files', writer', hist[i])]_vars

\* C4 (as claimed): when an accepted write returns, its record is in the
\* on-disk active file.
C4_ReadableAfterWrite ==
    (lastOp = "write" /\ LastCall.ok) =>
        Contains(files[ActivePath].data, Record(LastCall.id, LastCall.n))

\* C5: an accepted write of n bytes rotates exactly once if MaxSize > 0 and
\* currentSize + n > MaxSize, and not at all otherwise; after a rotating
\* write the active segment holds the record and nothing else, and no
\* archive holds a byte of it.
C5_RotateIffOverflow ==
    [][(Decided /\ hist'[Len(hist')].ok) =>
        LET r == hist'[Len(hist')]
            over == config.MaxSize > 0 /\ currentSize + r.n > config.MaxSize
        IN /\ nrot' = IF over THEN nrot + 1 ELSE nrot
           /\ over =>
                /\ ActiveSeg(files', writer') = Record(r.id, r.n)
                /\ \A f \in Archives(files') :
                      \A k \in DOMAIN files'[f].data : files'[f].data[k] # r.id]_vars

\* C5 witness: a write has rotated a segment that held records, and is alone
\* in the new active segment.
C5_Witness ==
    /\ lastOp = "write" /\ nrot > 0
    /\ ActiveSeg(files, writer) = Record(LastCall.id, LastCall.n)
    /\ \E f \in Archives(files) : Len(Content(files, f)) > 0

\* A segment that consists of one record that is longer than MaxSize.
SingleLongRecord(bytes) ==
    /\ Len(bytes) > config.MaxSize
    /\ \E i \in DOMAIN hist : hist[i].ok /\ bytes = Record(hist[i].id, hist[i].n)

C7_ArchiveBesideActive ==
    (nrot > 0 /\ ~deleted) =>
        /\ ActivePath \in DOMAIN files
        /\ ActivePath = [stem |-> FileName, stamped |-> FALSE, ts |-> 0, ext |-> ".log"]
        /\ \E f \in DOMAIN files :
              /\ f.stem = FileName /\ f.stamped /\ f.ts <= now
              /\ f.ext = IF config.Compress THEN ".log.gz" ELSE ".log"
        /\ Cardinality(DOMAIN files) >= 2

\* C7 witness: a compressing writer has rotated.
C7_Witness ==
    /\ nrot > 0 /\ ~deleted /\ config.Compress
    /\ \E f \in DOMAIN files : f.stamped /\ f.ext = ".log.gz"

\* C8: a rotation with Compress leaves an archive that is a valid gzip
\* stream of exactly the bytes the active segment held when the rotation
\* started, buffered bytes included; the canonical path then names a fresh
\* file that holds nothing of the rotated segment.
C8_CompressedArchiveExact ==
    [][(nrot' > nrot /\ config.Compress) =>
        LET a == [stem |-> FileName, stamped |-> TRUE, ts |-> now, ext |-> ".log.gz"]
            r == hist'[Len(hist')]
        IN /\ a \in DOMAIN files'
           /\ IsGzip(files'[a].data)
           /\ Gunzip(files'[a].data) = ActiveSeg(files, writer)
           /\ ActivePath \in DOMAIN files'
           /\ ActiveSeg(files', writer') = Record(r.id, r.n)
           /\ currentSize' = r.n]_vars

\* C8 witness: a compressed archive that holds bytes which were still
\* buffered when the rotation started.
C8_Witness ==
    /\ config.Compress /\ nrot > 0 /\ lastOp = "write"
    /\ \E f \in Archives(files) :
          /\ IsGzip(files[f].data)
          /\ Len(Gunzip(files[f].data)) >= 2
          /\ files[f].mtime = now
          /\ \E i \in DOMAIN hist : hist[i].ok /\ hist[i].n = 1
                /\ Contains(Gunzip(files[f].data), Record(hist[i].id, 1))

\* C9: a cleanup pass leaves the file at the canonical active path in
\* place and untouched.
C9_CleanupKeepsActive ==
    [][lastOp' = "cleanup" =>
        /\ ActivePath \in DOMAIN files'
        /\ files'[ActivePath] = files[ActivePath]]_vars

\* C9 witness: a pass has deleted an archive and kept the active file, which
\* is older than MaxAge and older than an archive that was kept.
C9_Witness ==
    /\ lastOp = "cleanup" /\ deleted
    /\ config.MaxAge > 0 /\ config.MaxBackups > 0
    /\ now - files[ActivePath].mtime > config.MaxAge
    /\ \E f \in Archives(files) : files[f].mtime > files[ActivePath].mtime

\* C10: with MaxBackups = B > 0, after a cleanup pass at most B matching
\* files other than the active file remain.
C10_AtMostBBackups ==
    (lastOp = "cleanup" /\ config.MaxBackups > 0) =>
        Cardinality(getLogFiles(files) \ {ActivePath}) <= config.MaxBackups

\* C10 witness: a pass with a count limit has deleted a file and kept as
\* many archives as the limit allows, all of them newer than the active file.
C10_Witness ==
    /\ lastOp = "cleanup" /\ deleted /\ config.MaxBackups > 0
    /\ Cardinality(getLogFiles(files) \ {ActivePath}) = config.MaxBackups
    /\ \A f \in Archives(files) : files[f].mtime > files[ActivePath].mtime

\* C11: with MaxAge = A > 0, after a cleanup pass no matching file other
\* than the active file remains whose modification time is more than A
\* before the time of the pass.
C11_NoneOlderThanMaxAge ==
    (lastOp = "cleanup" /\ config.MaxAge > 0) =>
        \A f \in getLogFiles(files) \ {ActivePath} :
            ~(now - files[f].mtime > config.MaxAge)

\* C11 witness: a pass with an age limit and no count limit has deleted a
\* file and kept an archive whose age is exactly MaxAge.
C11_Witness ==
    /\ lastOp = "cleanup" /\ deleted
    /\ config.MaxAge > 0 /\ config.MaxBackups = 0
    /\ \E f \in Archives(files) : now - files[f].mtime = config.MaxAge

\* The archives in newest-first order, the active file left out.
ArchivesNewestFirst(fs) ==
    LET S == getLogFiles(fs) \ {ActivePath}
        k == Cardinality(S)
    IN {o \in [1..k -> S] :
           /\ \A i, j \in 1..k : i # j => o[i] # o[j]
           /\ \A i, j \in 1..k : i < j => ~(fs[o[j]].mtime > fs[o[i]].mtime)}

\* The archives that the rule as claimed marks: i is the position among the
\* archives only.
MarkedAmongArchives(cfg, fs, o, t) ==
    {o[i + 1] : i \in {j \in 0..(Len(o) - 1) :
        \/ cfg.MaxAge > 0 /\ t - fs[o[j + 1]].mtime > cfg.MaxAge
        \/ cfg.MaxBackups > 0 /\ j >= cfg.MaxBackups}}

\* C12 (as claimed): a cleanup pass deletes exactly the archives that are
\* older than MaxAge or whose 0-based position in the newest-first order of
\* the archives alone is >= MaxBackups; the MaxBackups newest unexpired
\* archives stay.
C12_IndexAmongArchives ==
    [][lastOp' = "cleanup" =>
        \E o \in ArchivesNewestFirst(files) :
            DOMAIN files \ DOMAIN files' = MarkedAmongArchives(config, files, o, now)]_vars

FatalInWriteLog(p) == pc[p] \in {"lock", "crit"} /\ req[p].level = FATAL

\* C14 (as claimed): a Fatal call never waits for the lock without a bound:
\* while another party holds the lock and never releases it, no Fatal call
\* is blocked in a wait that no timeout ends.
C14_FatalNeverBlocked ==
    \A p \in Procs : ~(FatalInWriteLog(p) /\ pc[p] = "lock" /\ gpc["syncRoutine"] = "hung")

\* Fatal past writeLog: in syncAndExit.
InSyncAndExit(p) == pc[p] \in {"exit", "select"}

\* C15: Fatal first writes its record as any accepted record is written (it
\* ends the active segment), only then starts the flush and sync, and the
\* process then terminates with a non-zero status, whether the sync
\* completed, failed or timed out; os.Exit(1) is called from the select of
\* syncAndExit only, and Fatal never returns to its caller.
C15_FatalWritesSyncsExits ==
    /\ [][\A p \in Procs :
            /\ (~InSyncAndExit(p) /\ InSyncAndExit(p)') =>
                  /\ FatalInWriteLog(p) /\ pc[p] = "crit"
                  /\ hist' = Append(hist, [id |-> req[p].id, n |-> req[p].n, ok |-> TRUE])
                  /\ (fileOpen /\ ~werr) =>
                        EndsWith(ActiveSeg(files', writer'), Record(req[p].id, req[p].n))
                  /\ gpc["fatalSync"] = "off"
            /\ (FatalInWriteLog(p) \/ InSyncAndExit(p)) => pc'[p] # "idle"
            /\ (exitCode = -1 /\ exitCode' = 1) =>
                  pc[p] = "select" /\ gpc["fatalSync"] # "off"]_vars
    /\ [](exited => exitCode >= 1)
    /\ \A p \in Procs : InSyncAndExit(p) ~> (exited /\ exitCode >= 1)

\* C15 witness: the process has exited with status 1 on the timeout, the
\* sync still waiting for a lock that another goroutine holds, the Fatal
\* record in the active segment.
C15_Witness ==
    /\ exitCode = 1
    /\ gpc["fatalSync"] = "lock" /\ mu \in Routines \cup {"closer"}
    /\ hist # <<>> /\ EndsWith(ActiveSeg(files, writer), Record(LastCall.id, LastCall.n))

\* The record of a call is whole in a file of the directory.
OnDisk(fs, r) == \E f \in DOMAIN fs : Contains(Content(fs, f), Record(r.id, r.n))

\* C16 (as claimed): once Close has returned, its flush, sync and close
\* having succeeded, every record accepted by a write that completed before
\* Close was called is in the active file or in an archive on disk (as long
\* as no cleanup pass has deleted a file).
C16_ClosedLogOnDisk ==
    (closeRes.st = "returned" /\ closeRes.first = "nil" /\ ~deleted) =>
        \A i \in 1..closeRes.before : hist[i].ok => OnDisk(files, hist[i])

\* C17 (as claimed): Close returns the first error among its flush, its
\* sync and its close of the handle, and nil only when all three succeed.
C17_CloseFirstError ==
    closeRes.st = "returned" => closeRes.ret = closeRes.first

\* The routines that are in a pass (waiting for the lock, or under it).
InPass == {g \in Routines : gpc[g] \in {"lock", "crit"}}

\* C18: once the stop channel is closed each routine terminates (or the
\* process does), whether it waits in its select or is in a pass; a routine
\* returns only from its select and only when the channel is closed, and a
\* routine that has returned stays so: nothing starts it again.
C18_RoutinesStopOnce ==
    /\ [][\A g \in Routines :
            /\ gpc[g] = "done" => gpc'[g] = "done"
            /\ (gpc[g] # "done" /\ gpc'[g] = "done") =>
                  stopChan = "closed" /\ gpc[g] = "select"]_vars
    /\ \A g \in Routines : (stopChan = "closed") ~> (gpc[g] = "done" \/ exited)

\* C18 witness: the channel is closed, one routine has returned, the other
\* one is still in the pass it was in, under the lock, Close waiting for it.
C18_Witness ==
    /\ stopChan = "closed" /\ ~exited
    /\ gpc["syncRoutine"] = "done"
    /\ gpc["cleanupRoutine"] = "crit" /\ gpc["closer"] = "lock"

\* C19 (as claimed): no sequence of calls other than Fatal panics.
C19_NoPanic == exitCode # 2

\* The callers and goroutines inside a critical section.
InCrit == {p \in Procs : pc[p] = "crit"} \cup {g \in Goroutines : gpc[g] = "crit"}

\* The active file handle, the buffered output and currentSize.
handle == <<files, writer, fileOpen, currentSize, werr>>

\* C20: at most one of write (with its rotation), Sync, cleanup and Close is
\* inside its critical section, it is the holder of the lock, and the
\* directory, the handle, the buffered output and currentSize change only
\* in a step of the holder.
C20_OneInCriticalSection ==
    [][/\ Cardinality(InCrit) <= 1
       /\ InCrit = IF mu = "free" THEN {} ELSE {mu}
       /\ handle' # handle => (mu # "free" /\ InCrit' = {})]_vars

\* C20 witness: Close is in its critical section while a leveled call and
\* both routines wait for the lock, and a rotation has taken place.
C20_Witness ==
    /\ mu = "closer" /\ InCrit = {"closer"}
    /\ \E p \in Procs : pc[p] = "lock"
    /\ InPass = Routines
    /\ nrot > 0

\* The writer is not in the middle of a rotation and counts what it holds.
Settled(fs, w, open, size) ==
    /\ open /\ ActivePath \in DOMAIN fs
    /\ size = Len(ActiveSeg(fs, w))

\* C21: a writer is in its critical section only as the holder of the lock
\* and alone; the write it makes there finds the active file open and
\* currentSize equal to what the segment holds, rotates if and only if the
\* record does not fit, stores the record whole at the end of the active
\* segment, after the records of all writers that had the lock before, and
\* leaves the file open and currentSize up to date.
C21_WritesInLockOrder ==
    [][\A p \in Writers :
          /\ (pc[p] # "crit" /\ pc'[p] = "crit") =>
                /\ \A q \in Writers : pc[q] # "crit"
                /\ mu' = p
          /\ (pc[p] = "crit" /\ pc'[p] # "crit") =>
                LET rec == Record(req[p].id, req[p].n)
                    seg == ActiveSeg(files, writer)
                    over == config.MaxSize > 0 /\ Len(seg) + Len(rec) > config.MaxSize
                IN /\ mu = p
                   /\ Settled(files, writer, fileOpen, currentSize)
                   /\ hist' = Append(hist, [id |-> req[p].id, n |-> req[p].n, ok |-> TRUE])
                   /\ nrot' = IF over THEN nrot + 1 ELSE nrot
                   /\ ActiveSeg(files', writer') = IF over THEN rec ELSE seg \o rec
                   /\ Settled(files', writer', fileOpen', currentSize')]_vars

\* C21 witness: the writer that made its call second holds the lock first,
\* after a rotation, while the other one waits for the lock.
C21_Witness ==
    /\ pc["c1"] = "crit" /\ pc["c2"] = "lock"
    /\ req["c2"].id < req["c1"].id
    /\ nrot > 0 /\ currentSize > 0

\* C22 (as claimed): whoever holds the lock is in a critical section that
\* ends with Unlock: no holder of the lock waits for the lock again, also
\* with the minimum level DEBUG and a cleanup pass that has deleted a file.
C22_HolderReleases ==
    \A g \in DOMAIN gpc : mu = g => gpc[g] = "crit"

\* The call with number i was accepted and its write has returned.
AcceptedCall(i) == \E k \in DOMAIN hist : hist[k].id = i /\ hist[k].ok

OnDiskCall(i) == \E k \in DOMAIN hist : hist[k].id = i /\ OnDisk(files, hist[k])

\* C23: with the sync routine running, every record accepted by a write is
\* sooner or later whole in a file on disk, unless Close is called or the
\* process exits before: no further call is needed.
C23_SyncReachesDisk ==
    \A i \in 1..MaxWrites :
        AcceptedCall(i) ~> (OnDiskCall(i) \/ stopChan = "closed" \/ exited)

\* C23 witness: the one record written, shorter than the buffer, is on disk
\* though neither Close nor Fatal was called: the sync routine has flushed it.
C23_Witness ==
    /\ Len(hist) = 1 /\ hist[1].ok /\ hist[1].n < BufSize
    /\ OnDisk(files, hist[1])
    /\ stopChan = "open" /\ ~exited /\ gpc["fatalSync"] = "off"
    /\ gpc["syncRoutine"] = "select"

C25_LevelSetAndRead ==
    [][/\ (gpc["getter"] = "crit" /\ gpc'["getter"] = "idle") => got' = lastSet
       /\ \A p \in Procs :
             (pc[p] = "idle" /\ (Decided \/ pc'[p] = "lock")) =>
                 IF pc'[p] = "lock"
                 THEN req'[p].level >= lastSet /\ req'[p].min = lastSet
                 ELSE ~hist'[Len(hist')].ok /\ config.Level = lastSet]_vars

\* C25 witness: after a record was written, SetLevel(WARN) has returned,
\* GetLevel has returned WARN and a call has been filtered.
C25_Witness ==
    /\ lastSet = WARN /\ got = WARN
    /\ lastOp = "filtered"
    /\ hist[1].ok /\ Present(files, writer, hist[1])
    /\ gpc["setter"] = "idle"

\* C26: construction leaves currentSize equal to the size of the file at
\* the canonical path (0 when it was created), and so does every rotation
\* that ends with the file open, the recovery after a failed archival
\* included: currentSize counts what the active file holds, plus the record
\* written after the open.
C26_SizeFromFileAtOpen ==
    /\ [](hist = <<>> => currentSize = Len(files[ActivePath].data))
    /\ [][(nrot' > nrot /\ fileOpen') =>
            /\ currentSize' = Len(ActiveSeg(files', writer'))
            /\ lastOp' = "rotfail" =>
                  /\ writer' = <<>>
                  /\ currentSize' = Len(files'[ActivePath].data)]_vars

\* C26 witness: the archival of a segment that an earlier run had started
\* has failed, the file was reopened and the size count is that of the file.
C26_Witness ==
    /\ lastOp = "rotfail" /\ fileOpen
    /\ currentSize = SmallMax
    /\ files[ActivePath].data[1] = 0
    /\ Archives(files) = {}

\* C27 (as claimed): when a write has reported that its rotation failed and
\* the original file was reopened, the record of that write ends the active
\* segment: the oversized segment has grown by it.
C27_DegradedAppend ==
    (lastOp = "rotfail" /\ fileOpen) =>
        /\ ActivePath \in DOMAIN files
        /\ EndsWith(ActiveSeg(files, writer), Record(LastCall.id, LastCall.n))

\* C28 (as claimed): before Close, the file handle of the writer is open
\* on the file at the canonical path whenever the lock is free, and
\* whenever a write is about to use it under the lock.
C28_HandleNeverClosed ==
    closeRes.st = "none" =>
        /\ mu = "free" => (fileOpen /\ ActivePath \in DOMAIN files)
        /\ \A p \in DOMAIN pc : pc[p] = "crit" => fileOpen

\* C29 (as claimed): no step changes or replaces an archive, and only a
\* cleanup pass removes one.
C29_ArchivesWriteOnce ==
    [][\A f \in Archives(files) :
          IF f \in DOMAIN files' THEN files'[f] = files[f] ELSE lastOp' = "cleanup"]_vars

\* C30 (as claimed): a write stores its record at the end of the active
\* segment and adds its length to currentSize (counted from 0 after a
\* rotation), whether the second sink takes the record or fails.
C30_SinkFailureKeepsWrite ==
    [][\A p \in Procs :
          (pc[p] = "crit" /\ pc'[p] = "idle") =>
              LET n == req[p].n
                  over == config.MaxSize > 0 /\ currentSize + n > config.MaxSize
              IN /\ EndsWith(ActiveSeg(files', writer'), Record(req[p].id, n))
                 /\ currentSize' = (IF over THEN 0 ELSE currentSize) + n]_vars

\* C31: a call of NewLogger either returns a logger, the active file open
\* at the canonical path and the cleanup routine started, or returns an
\* error and no logger: then no routine runs, no handle is open, the lock
\* is free and the directory is as it was.
C31_FailedConstruction ==
    [][lastOp' \in {"new", "newerr"} =>
        IF lastOp' = "new"
        THEN /\ Constructed'
             /\ fileOpen' /\ ActivePath \in DOMAIN files'
             /\ gpc'["cleanupRoutine"] = "select"
        ELSE /\ ~Constructed'
             /\ \A g \in Goroutines : gpc'[g] = "off"
             /\ ~fileOpen' /\ writer' = <<>>
             /\ mu' = "free"
             /\ files' = files]_vars

\* C31 witness: NewLogger has failed over a directory that holds the file
\* of an earlier run.
C31_Witness ==
    /\ lastOp = "newerr"
    /\ ActivePath \in DOMAIN files /\ Len(files[ActivePath].data) = 2
    /\ currentSize = 2
    /\ ~fileOpen

\* C32 (as claimed): a cleanup pass removes only regular files named
\* <FileName>_*.log or <FileName>_*.log.gz; every other entry of the log
\* directory stays as it is, and so do currentSize, the file handle and the
\* buffered output.
C32_CleanupFrame ==
    [][lastOp' = "cleanup" =>
        /\ \A f \in DOMAIN files \ DOMAIN files' :
              /\ Kind(files, f) = "file"
              /\ f.stem = FileName /\ f.stamped /\ f.ext \in {".log", ".log.gz"}
        /\ DOMAIN files' \subseteq DOMAIN files
        /\ \A f \in DOMAIN files' : files'[f] = files[f]
        /\ UNCHANGED <<currentSize, fileOpen, writer>>]_vars

\* C33: a cleanup pass deletes every file it marks whose deletion does not
\* fail, also those that come after a failed deletion in the order of the
\* pass; it reports when a deletion has failed, leaves every other entry as
\* it is and releases the lock at its end.
C33_FailedDeletionGoesOn ==
    [][(gpc["cleanupRoutine"] = "crit" /\ gpc'["cleanupRoutine"] # "crit") =>
        /\ \E o \in SortedNewestFirst(files) :
              LET marked == Marked(config, files, o, now)
              IN /\ DOMAIN files \ DOMAIN files' = {f \in marked : ~Protected(files, f)}
                 /\ lastOp' = "cleanuperr" <=> \E f \in marked : Protected(files, f)
        /\ \A f \in DOMAIN files' : f \in DOMAIN files /\ files'[f] = files[f]
        /\ mu = "cleanupRoutine" /\ mu' = "free"
        /\ gpc'["cleanupRoutine"] = "select"]_vars

\* C33 witness: a pass has reported a failed deletion and has released the
\* lock; the protected archive, which the pass had marked, is still there
\* and another marked file has been deleted in the same pass.
C33_Witness ==
    /\ lastOp = "cleanuperr" /\ deleted /\ mu = "free"
    /\ gpc["cleanupRoutine"] = "select"
    /\ \E o \in SortedNewestFirst(files) :
          \E f \in Marked(config, files, o, now) : Protected(files, f)

\* The bytes of seq that call id wrote.
Bytes(seq, id) == Cardinality({i \in DOMAIN seq : seq[i] = id})

\* The sum of the lengths of the accepted records of h whose call is in ids.
RECURSIVE SumLen(_, _)
SumLen(h, ids) ==
    IF h = <<>> THEN 0
    ELSE (IF Head(h).id \in ids /\ Head(h).ok THEN Head(h).n ELSE 0) + SumLen(Tail(h), ids)

\* C34: whenever the lock is free, the logger constructed, Close not called
\* and no I/O error has occurred, the active file is open and currentSize is
\* the number of bytes in the file plus the number of bytes in the buffer:
\* the bytes the file held when it was opened, which come first, plus the
\* lengths of the records written since, each of which is there whole.
C34_SizeIsFilePlusBuffer ==
    (Constructed /\ mu = "free" /\ closeRes.st = "none" /\ ~werr /\ ~exited) =>
        /\ fileOpen /\ ActivePath \in DOMAIN files
        /\ currentSize = Len(files[ActivePath].data) + Len(writer)
        /\ LET seg == ActiveSeg(files, writer)
               old == Bytes(seg, 0)
               ids == {seg[i] : i \in DOMAIN seg} \ {0}
           IN /\ \A i \in 1..old : seg[i] = 0
              /\ \A id \in ids : \E k \in DOMAIN hist :
                    hist[k].id = id /\ hist[k].ok /\ Bytes(seg, id) = hist[k].n
              /\ currentSize = old + SumLen(hist, ids)

\* C34 witness: the file held two bytes when NewLogger opened it; a record
\* of one byte has been written since, the lock is free, and part of the
\* three bytes that currentSize counts is on disk and part in the buffer.
C34_Witness ==
    /\ Constructed /\ mu = "free" /\ closeRes.st = "none" /\ ~werr
    /\ currentSize = 3 /\ Len(writer) = 1 /\ Len(files[ActivePath].data) = 2
    /\ files[ActivePath].data = Rep(0, 2)

\* writeLog's level check by caller p: the step that reads config.Level.
LevelRead(p) ==
    /\ pc[p] = "idle"
    /\ \/ pc'[p] = "lock"
       \/ lastOp' = "filtered" /\ hist' # hist

\* C35: a leveled write reads the minimum level only in an order with
\* SetLevel's write that the lock fixes: never while SetLevel is between
\* its Lock and its Unlock, where the level is written.
C35_LevelUnderLock ==
    [][\A p \in Procs : LevelRead(p) => gpc["setter"] # "crit" /\ mu # "setter"]_vars

\* C36: no archive is empty: a rotation is performed only when the active
\* segment holds at least one byte, also for a record longer than MaxSize
\* that arrives at an empty active file.
C36_NoEmptyArchive ==
    \A f \in Archives(files) : Len(Content(files, f)) >= 1

\* C37: once Close has returned, neither routine starts a pass from its
\* select, also with a tick pending beside the closed channel, and neither
\* carries out the Sync or the cleanup of a pass.
C37_NoPassAfterClose ==
    [][closeRes.st = "returned" =>
          \A g \in Routines :
              /\ ~(gpc[g] = "select" /\ gpc'[g] = "lock")
              /\ ~(gpc[g] = "crit" /\ gpc'[g] # "crit")]_vars

\* A write has reported a failed rotation whose compression step failed:
\* the active file, which a completed compression is followed by the
\* removal of, is still where it was.
CompressionFailed ==
    /\ lastOp' = "rotfail" /\ config.Compress /\ hist' # hist
    /\ ActivePath \in DOMAIN files => ActivePath \in DOMAIN files'

\* C38: a write whose rotation fails in the compression step leaves the
\* archives as they were: no file has appeared at the archive path and no
\* archive has been changed.
C38_FailedCompressionLeavesNothing ==
    [][CompressionFailed =>
          \A f \in Archives(files') : f \in DOMAIN files /\ files'[f] = files[f]]_vars

====
